---------------------------- MODULE Spec2Model ----------------------------
(***************************************************************************)
(* Model of the cart / inventory engine of UniversalPOS                    *)
(* (src/admin-deployment/pos-system.js).                                   *)
(*                                                                         *)
(* Money is kept in whole cents.  The inventory map is a function whose    *)
(* domain is the set of keys the JavaScript object holds.  A quantity      *)
(* argument is a record [given, value]: given = FALSE is the omitted       *)
(* (null) argument of removeFromCart.                                      *)
(***************************************************************************)
EXTENDS Integers, Sequences, FiniteSets, TLC

\* ------------------------------------------------------------------ bounds
MaxQty == 3        \* largest quantity argument a caller passes
MaxNeg == 1        \* most negative quantity argument a caller passes
MaxDrift == 1      \* how far a ledger entry may leave [0, declared stock]
MaxOrders == 2     \* completed checkouts explored
MaxPending == 2    \* remote submissions in flight at once
MaxTimers == 2     \* re-scan timers pending at once
MaxListeners == 2  \* click listeners counted on one add-to-cart button

\* ---------------------------------------------------------- configuration
TaxRatePct == 8        \* options.taxRate, in percent (0.08)
ShippingCost == 999    \* options.shippingCost, in cents (9.99)

\* The product-bearing elements of the document, in document order:
\* data-pos-product, data-pos-price (cents), data-pos-inventory.
Document ==
  << [id |-> "mug-1", price |-> 1000, inventory |-> 5],
     [id |-> "tee-2", price |-> 500,  inventory |-> 1] >>

\* The document after an edit: the stock attribute of mug-1 has changed and an
\* element for "cap-3" has been inserted.
Restocked ==
  << [id |-> "mug-1", price |-> 1000, inventory |-> 2],
     [id |-> "tee-2", price |-> 500,  inventory |-> 1],
     [id |-> "cap-3", price |-> 799,  inventory |-> 1] >>

\* The document after an element has been inserted that carries the
\* identifier of the first one.
Duplicated ==
  << [id |-> "mug-1", price |-> 1000, inventory |-> 5],
     [id |-> "tee-2", price |-> 500,  inventory |-> 1],
     [id |-> "mug-1", price |-> 1200, inventory |-> 3] >>

\* The documents a scan may find.
Documents == << Document, Restocked, Duplicated >>

\* Identifiers callers pass; "cap-3" is carried by no element of Document.
ProductIds == {"mug-1", "tee-2", "cap-3"}

QtyValues == (0 - MaxNeg)..MaxQty
Given(n) == [given |-> TRUE, value |-> n]
Omitted == [given |-> FALSE, value |-> 0]
AddArgs == {Given(n) : n \in QtyValues}
RemoveArgs == AddArgs \cup {Omitted}
\* The narrower argument sets of the specifications that also explore
\* overrides or checkouts.
FewArgs == {Given(1), Given(2)}
FewRemoveArgs == FewArgs \cup {Omitted}
\* Quantities of at least 1, as the quantity input of a product offers them.
PosArgs == {Given(n) : n \in 1..MaxQty}
\* Removals that never exceed what a line of at least 1 holds.
UnitRemoveArgs == {Given(1), Omitted}
SetValues == {0 - 1, 1}
DocumentIds == {Document[i].id : i \in 1..Len(Document)}

VARIABLES
  products,      \* this.products
  inventory,     \* this.inventory
  cart,          \* this.cart
  storage,       \* localStorage: the cart and inventory blobs
  orders,        \* localStorage 'universal-pos-orders'
  pending,       \* checkoutData objects held by submitToAPI calls in flight
  apiEndpoint,   \* options.apiEndpoint is configured
  last,          \* the last call: name, arguments, cart and inventory before it
  result,        \* what the last call returned
  events,        \* the events the last call emitted, in order
  notification,  \* the message of the last call's showNotification ("" if none)
  totals,        \* what the last call returned, when it was calculateTotals
  paymentManager, \* "none", or the display of the payment manager's modal
  timers,        \* setTimeout callbacks of the mutation observer not yet run
  listeners      \* per product element, in document order: the click
                 \* listeners on its add-to-cart button (MaxListeners: that
                 \* many or more)

vars == << products, inventory, cart, storage, orders, pending, apiEndpoint,
           last, result, events, notification, totals, paymentManager,
           timers, listeners >>

\* ----------------------------------------------------------------- helpers
\* JavaScript truthiness of a quantity argument: null and 0 are falsy.
Truthy(arg) == arg.given /\ arg.value # 0

\* Array.prototype.findIndex(item => item.id === id), 1-based; 0 stands for -1.
FindIndex(seq, id) ==
  IF \E i \in 1..Len(seq) : seq[i].id = id
  THEN CHOOSE i \in 1..Len(seq) :
         /\ seq[i].id = id
         /\ \A j \in 1..(i - 1) : seq[j].id # id
  ELSE 0

\* `this.inventory[id] || 0`
InvGet(inv, id) == IF id \in DOMAIN inv THEN inv[id] ELSE 0

\* `this.inventory[id] = v`
InvPut(inv, id, v) ==
  [x \in DOMAIN inv \cup {id} |-> IF x = id THEN v ELSE inv[x]]

\* splice(i, 1)
RemoveAt(seq, i) ==
  [j \in 1..(Len(seq) - 1) |-> IF j < i THEN seq[j] ELSE seq[j + 1]]

RECURSIVE SumSeq(_, _)
SumSeq(seq, i) == IF i > Len(seq) THEN 0 ELSE seq[i] + SumSeq(seq, i + 1)

\* Math.round(a / b) for b > 0: halves round towards +infinity.
\* Variant of RoundDiv: the fraction is cut off.
TruncDiv(a, b) == a \div b

RoundDiv(a, b) == (2 * a + b) \div (2 * b)

\* ------------------------------------------------------------- the scanner
\* parseProductElement: the fields of one element the engine reads.
parseProductElement(element) ==
  [id |-> element.id, price |-> element.price, inventory |-> element.inventory]

\* Variant of initializeInventory: the entry is written whether or not the
\* key is there.
initializeInventoryAlways(inv, product) ==
  InvPut(inv, product.id, product.inventory)

\* initializeInventory: a ledger entry is created only when the key is absent.
initializeInventory(inv, product) ==
  IF product.id \in DOMAIN inv THEN inv
  ELSE InvPut(inv, product.id, product.inventory)

\* scanProducts: this.products is rebuilt from the document, element by
\* element, and each product's ledger entry is initialised.
RECURSIVE ScanFrom(_, _, _, _)
ScanFrom(doc, i, prods, inv) ==
  IF i > Len(doc) THEN [products |-> prods, inventory |-> inv]
  ELSE LET product == parseProductElement(doc[i])
       IN ScanFrom(doc, i + 1, Append(prods, product),
                   initializeInventory(inv, product))

scanProducts(doc, inv) == ScanFrom(doc, 1, << >>, inv)

\* enhanceProductElement (lines 145-190), called by scanProducts for every
\* element: the add-to-cart button is found or created and one more click
\* listener is added to it (line 181).  bound[i] is the number of listeners
\* on the button of the i-th element before the scan; an element beyond
\* bound has just been inserted.
enhanceProductElements(doc, bound, most) ==
  [i \in 1..Len(doc) |->
     LET before == IF i <= Len(bound) THEN bound[i] ELSE 0
     IN IF before < most THEN before + 1 ELSE most]

\* -------------------------------------------------------------- the totals
\* calculateTotals, in cents.
calculateTotals(c) ==
  LET subtotal == SumSeq([i \in 1..Len(c) |-> c[i].price * c[i].quantity], 1)
      tax100 == subtotal * TaxRatePct            \* tax, in hundredths of a cent
  IN [subtotal |-> subtotal,
      tax |-> RoundDiv(tax100, 100),
      shipping |-> ShippingCost,
      total |-> RoundDiv(subtotal * 100 + tax100 + ShippingCost * 100, 100),
      itemCount |-> SumSeq([i \in 1..Len(c) |-> c[i].quantity], 1)]

\* ------------------------------------------------------ the cart operations
\* Each operation is a function of the engine state it reads; it yields the
\* value returned, the new cart and ledger, whether saveData ran, and the
\* events emitted.
Outcome(ret, c, inv, saved, evs) ==
  [ret |-> ret, cart |-> c, inventory |-> inv, saved |-> saved, events |-> evs,
   notification |-> ""]

\* The outcome o of a call that also shows the notification msg.
Notify(o, msg) == [o EXCEPT !.notification = msg]

\* Variant of InsufficientStock: the first check (line 244) is missing, only
\* the top-up check remains.
InsufficientStockLax(c, inv, productId, quantity) ==
  LET availableStock == InvGet(inv, productId)
      ci == FindIndex(c, productId)
  IN /\ ci # 0
     /\ availableStock < c[ci].quantity + quantity

\* The stock checks of addToCart (lines 243-256): TRUE when the call is refused.
InsufficientStock(c, inv, productId, quantity) ==
  LET availableStock == InvGet(inv, productId)
      ci == FindIndex(c, productId)
  IN \/ availableStock < quantity
     \/ /\ ci # 0
        /\ availableStock < c[ci].quantity + quantity

\* The cart after a successful addToCart (lines 250-267).
AddLine(c, product, quantity) ==
  LET ci == FindIndex(c, product.id)
  IN IF ci # 0
     THEN [c EXCEPT ![ci].quantity = @ + quantity]
     ELSE Append(c, [id |-> product.id, price |-> product.price,
                     quantity |-> quantity])

\* Variant of addToCart: the product lookup is replaced by a lookup in the
\* inventory map, so an identifier with a ledger entry is accepted.
addToCartByLedger(prods, c, inv, productId, arg) ==
  LET quantity == IF arg.given THEN arg.value ELSE 1
  IN IF productId \notin DOMAIN inv THEN Outcome("false", c, inv, FALSE, << >>)
     ELSE IF InsufficientStock(c, inv, productId, quantity)
     THEN Outcome("false", c, inv, FALSE, << >>)
     ELSE Outcome("true",
                  AddLine(c, [id |-> productId, price |-> 0], quantity),
                  [inv EXCEPT ![productId] = @ - quantity],
                  TRUE,
                  << [name |-> "pos:item-added", productId |-> productId,
                      quantity |-> quantity] >>)

\* The message of the stock check that refuses the call (lines 245, 254).
StockNotice(inv, productId, quantity) ==
  IF InvGet(inv, productId) < quantity
  THEN "Insufficient stock"
  ELSE "Not enough stock for requested quantity"

addToCart(prods, c, inv, productId, arg) ==
  LET pi == FindIndex(prods, productId)
      quantity == IF arg.given THEN arg.value ELSE 1
  IN IF pi = 0
     THEN Notify(Outcome("false", c, inv, FALSE, << >>), "Product not found")
     ELSE IF InsufficientStock(c, inv, productId, quantity)
     THEN Notify(Outcome("false", c, inv, FALSE, << >>),
                 StockNotice(inv, productId, quantity))
     ELSE Notify(Outcome("true",
                         AddLine(c, prods[pi], quantity),
                         \* `this.inventory[productId] -= quantity`
                         [inv EXCEPT ![productId] = @ - quantity],
                         TRUE,
                         << [name |-> "pos:item-added", productId |-> productId,
                             quantity |-> quantity] >>),
                 "added to cart")

\* `quantity || cartItem.quantity` (line 290)
RemoveQuantity(arg, held) == IF Truthy(arg) THEN arg.value ELSE held

\* Variant of RemoveLine: the line item is always spliced out.
RemoveLineWhole(c, ci, arg) == RemoveAt(c, ci)

\* The cart after removeFromCart (lines 295-299).
RemoveLine(c, ci, arg) ==
  IF Truthy(arg) /\ c[ci].quantity > arg.value
  THEN [c EXCEPT ![ci].quantity = @ - arg.value]
  ELSE RemoveAt(c, ci)

\* Variant of removeFromCart: the event is emitted before the product is
\* looked up in the cart, so a refused call emits it too.
removeFromCartAnnouncing(c, inv, productId, arg) ==
  LET ci == FindIndex(c, productId)
      announced == << [name |-> "pos:item-removed", productId |-> productId,
                       quantity |-> 0] >>
  IN IF ci = 0 THEN Outcome("false", c, inv, FALSE, announced)
     ELSE LET removeQuantity == RemoveQuantity(arg, c[ci].quantity)
          IN Outcome("true",
                     RemoveLine(c, ci, arg),
                     InvPut(inv, productId, InvGet(inv, productId) + removeQuantity),
                     TRUE,
                     << [name |-> "pos:item-removed", productId |-> productId,
                         quantity |-> removeQuantity] >>)

removeFromCart(c, inv, productId, arg) ==
  LET ci == FindIndex(c, productId)
  IN IF ci = 0 THEN Outcome("false", c, inv, FALSE, << >>)
     ELSE LET removeQuantity == RemoveQuantity(arg, c[ci].quantity)
          IN Outcome("true",
                     RemoveLine(c, ci, arg),
                     InvPut(inv, productId, InvGet(inv, productId) + removeQuantity),
                     TRUE,
                     << [name |-> "pos:item-removed", productId |-> productId,
                         quantity |-> removeQuantity] >>)

\* Variant of ReleaseAll: the cart is emptied without giving stock back.
ReleaseNone(c, i, inv) == inv

\* The forEach of clearCart (lines 315-317): every line's quantity goes back.
RECURSIVE ReleaseAll(_, _, _)
ReleaseAll(c, i, inv) ==
  IF i > Len(c) THEN inv
  ELSE ReleaseAll(c, i + 1,
                  InvPut(inv, c[i].id, InvGet(inv, c[i].id) + c[i].quantity))

clearCart(c, inv) ==
  Outcome("undefined", << >>, ReleaseAll(c, 1, inv), TRUE,
          << [name |-> "pos:cart-cleared"] >>)

\* setInventory (lines 695-700)
setInventory(c, inv, productId, quantity) ==
  Outcome("undefined", c, InvPut(inv, productId, quantity), TRUE, << >>)

\* ------------------------------------------------------------- persistence
\* A stored blob is a text: either the JSON text of a value or a text that is
\* not JSON.  Carts and ledgers hold strings and integers only, which JSON
\* text represents exactly.
JSONstringify(v) == [json |-> TRUE, value |-> v]

NotJSON == [json |-> FALSE, value |-> << >>]

\* JSON.parse: the value, or a SyntaxError.
JSONparse(text) ==
  IF text.json THEN [threw |-> FALSE, value |-> text.value]
  ELSE [threw |-> TRUE, value |-> << >>]

\* localStorage.getItem followed by `if (stored) x = JSON.parse(stored)`: an
\* absent key leaves the default.
ParseStored(item, default) ==
  IF item = << >> THEN [threw |-> FALSE, value |-> default]
  ELSE JSONparse(item[1])

\* Variant of saveData: the inventory blob is written from an empty ledger.
saveDataCartOnly(c, inv) ==
  [cart |-> JSONstringify(c), inventory |-> JSONstringify(<< >>)]

\* saveData: both blobs are written from the in-memory state.
saveData(c, inv) ==
  [cart |-> JSONstringify(c), inventory |-> JSONstringify(inv)]

\* loadStoredData (lines 50-64): both parses sit in one try block, the cart's
\* first, so a SyntaxError on the cart blob reaches the catch before the
\* inventory blob is parsed.  The catch logs a warning; nothing is raised.
loadStoredData(store) ==
  LET storedCart == ParseStored(store.cart, << >>)
      storedInventory == ParseStored(store.inventory, << >>)
  IN IF storedCart.threw
     THEN [cart |-> << >>, inventory |-> << >>, raised |-> FALSE]
     ELSE IF storedInventory.threw
     THEN [cart |-> storedCart.value, inventory |-> << >>, raised |-> FALSE]
     ELSE [cart |-> storedCart.value, inventory |-> storedInventory.value,
           raised |-> FALSE]

\* ------------------------------------------------------------ the checkout
\* What checkoutData.cart holds: `cart: this.cart` is the engine's own array
\* for as long as this.cart is that array (live); clearCart assigns a new
\* array to this.cart, after which checkoutData keeps the old one (held).
CheckoutCart(checkoutData, c) ==
  IF checkoutData.live THEN c ELSE checkoutData.held

\* startCheckout, lines 534-539: the checkoutData object.
\* array names the array object checkoutData.cart refers to: 0 is the
\* engine's current this.cart, a positive number an array this.cart was
\* before a clearCart.  recorded tells that an Order has been written from
\* that array already.
NewCheckoutData(c) ==
  [live |-> TRUE, held |-> << >>, sent |-> c, totals |-> calculateTotals(c),
   array |-> 0, recorded |-> FALSE]

\* The Order record completeCheckout pushes (lines 578-584).  resubmitted is
\* not a field of the stored record: it notes that the record was written
\* from an array an earlier Order was written from.  sent is not stored
\* either: it is the contents the cart had when startCheckout ran.
OrderRecord(checkoutData, c) ==
  [cart |-> CheckoutCart(checkoutData, c), totals |-> checkoutData.totals,
   status |-> "completed", resubmitted |-> checkoutData.recorded,
   sent |-> checkoutData.sent]

\* The least array name no checkoutData in flight uses.
FreshArray(pend) ==
  CHOOSE k \in 1..(Len(pend) + 1) :
    /\ \A j \in 1..Len(pend) : pend[j].array # k
    /\ \A m \in 1..(k - 1) : \E j \in 1..Len(pend) : pend[j].array = m

\* clearCart replaces this.cart: every checkoutData in flight keeps the array
\* as it was.
Detach(pend, c) ==
  [i \in 1..Len(pend) |->
     IF pend[i].live
     THEN [pend[i] EXCEPT !.live = FALSE, !.held = c, !.array = FreshArray(pend)]
     ELSE pend[i]]

\* An Order has been written from the array named a: the checkoutData objects
\* in flight that refer to the same array.
MarkRecorded(pend, a) ==
  [i \in 1..Len(pend) |->
     IF pend[i].array = a THEN [pend[i] EXCEPT !.recorded = TRUE] ELSE pend[i]]

\* ------------------------------------------------------------------- state
TypeOK ==
  /\ DOMAIN inventory \subseteq ProductIds
  /\ \A p \in DOMAIN inventory : inventory[p] \in Int
  /\ \A i \in 1..Len(cart) : cart[i].id \in ProductIds /\ cart[i].quantity \in Int
  /\ Len(orders) <= MaxOrders
  /\ Len(pending) <= MaxPending
  /\ apiEndpoint \in BOOLEAN
  /\ result \in {"none", "true", "false", "undefined", "totals", "threw"}
  /\ Len(totals) <= 1
  /\ paymentManager \in {"none", "hidden", "block"}
  /\ timers \in 0..MaxTimers
  /\ \A i \in 1..Len(listeners) : listeners[i] \in 1..MaxListeners

\* The stock the document declares for a product identifier (0 if none).
DeclaredStock(p) ==
  LET i == FindIndex(Document, p)
  IN IF i = 0 THEN 0 ELSE Document[i].inventory

\* The exploration is cut where a ledger entry or a line quantity has left
\* [0, declared stock] by more than MaxDrift.
Near(p, n) == n >= 0 - MaxDrift /\ n <= DeclaredStock(p) + MaxDrift

InBounds(c, inv) ==
  /\ \A p \in DOMAIN inv : Near(p, inv[p])
  /\ \A i \in 1..Len(c) : Near(c[i].id, c[i].quantity)

NoCall == [op |-> "none", productId |-> "", arg |-> Omitted,
           cart |-> << >>, inventory |-> << >>, orders |-> 0, fault |-> 0]

\* The call being made, with the cart and the ledger it finds and the number
\* of orders stored.
Call(op, productId, arg) ==
  [op |-> op, productId |-> productId, arg |-> arg,
   cart |-> cart, inventory |-> inventory, orders |-> Len(orders),
   fault |-> 0]

\* The call being made when the storage refuses the fault-th setItem of the
\* call's saveData (quota exceeded, storage disabled).
FaultyCall(op, productId, arg, fault) ==
  [Call(op, productId, arg) EXCEPT !.fault = fault]

\* After construction with empty storage: loadStoredData finds nothing,
\* scanProducts reads the document.
InitWith(endpoints, managers) ==
  LET scanned == scanProducts(Document, << >>)
  IN /\ products = scanned.products
     /\ inventory = scanned.inventory
     /\ cart = << >>
     /\ storage = [cart |-> << >>, inventory |-> << >>]
     /\ orders = << >>
     /\ pending = << >>
     /\ apiEndpoint \in endpoints
     /\ paymentManager \in managers
     /\ timers = 0
     /\ listeners = enhanceProductElements(Document, << >>, MaxListeners)
     /\ last = NoCall
     /\ result = "none"
     /\ events = << >>
     /\ notification = ""
     /\ totals = << >>

Init == InitWith(BOOLEAN, {"none", "hidden"})

\* options.apiEndpoint left at null.
InitLocal == InitWith({FALSE}, {"none"})

\* options.apiEndpoint configured.
InitRemote == InitWith({TRUE}, {"none"})

\* What a call hands back: its return value, the events it emitted and the
\* notification it showed.
Returns(ret, evs, msg) ==
  /\ result' = ret
  /\ events' = evs
  /\ notification' = msg
  /\ totals' = << >>

\* The engine state after a cart operation with outcome o.
Commit(o) ==
  /\ InBounds(o.cart, o.inventory)
  /\ cart' = o.cart
  /\ inventory' = o.inventory
  /\ storage' = IF o.saved
                THEN [cart |-> << saveData(o.cart, o.inventory).cart >>,
                      inventory |-> << saveData(o.cart, o.inventory).inventory >>]
                ELSE storage
  /\ Returns(o.ret, o.events, o.notification)

\* The storage after a saveData whose fault-th setItem throws (lines 70-75):
\* the cart is written first; the exception leaves the try block, so the
\* writes after it do not happen; the catch logs a warning and saveData
\* returns normally.
saveDataFaulty(store, c, inv, fault) ==
  IF fault = 1 THEN store
  ELSE [store EXCEPT !.cart = << saveData(c, inv).cart >>]

\* As Commit, for an operation whose saveData meets the fault.
CommitFaulty(o, fault) ==
  /\ o.saved
  /\ InBounds(o.cart, o.inventory)
  /\ cart' = o.cart
  /\ inventory' = o.inventory
  /\ storage' = saveDataFaulty(storage, o.cart, o.inventory, fault)
  /\ Returns(o.ret, o.events, o.notification)

\* ----------------------------------------------------------------- actions
AddToCart(p, arg) ==
  /\ Commit(addToCart(products, cart, inventory, p, arg))
  /\ UNCHANGED << timers, listeners >>
  /\ last' = Call("addToCart", p, arg)
  /\ UNCHANGED << products, orders, pending, apiEndpoint, paymentManager >>

RemoveFromCart(p, arg) ==
  /\ Commit(removeFromCart(cart, inventory, p, arg))
  /\ UNCHANGED << timers, listeners >>
  /\ last' = Call("removeFromCart", p, arg)
  /\ UNCHANGED << products, orders, pending, apiEndpoint, paymentManager >>

ClearCart ==
  /\ Commit(clearCart(cart, inventory))
  /\ pending' = Detach(pending, cart)
  /\ UNCHANGED << timers, listeners >>
  /\ last' = Call("clearCart", "", Omitted)
  /\ UNCHANGED << products, orders, apiEndpoint, paymentManager >>

SetInventory(p, q) ==
  /\ Commit(setInventory(cart, inventory, p, q))
  /\ UNCHANGED << timers, listeners >>
  /\ last' = Call("setInventory", p, Given(q))
  /\ UNCHANGED << products, orders, pending, apiEndpoint, paymentManager >>

\* scanProducts over the k-th document.
ScanProducts(k) ==
  LET scanned == scanProducts(Documents[k], inventory)
  IN /\ products' = scanned.products
     /\ inventory' = scanned.inventory
     /\ listeners' = enhanceProductElements(Documents[k], listeners, MaxListeners)
     /\ last' = Call("scanProducts", "", Given(k))
     /\ Returns("undefined", << [name |-> "pos:products-scanned"] >>, "")
     /\ UNCHANGED << cart, storage, orders, pending, apiEndpoint,
                     paymentManager, timers >>

\* The click listeners of one add-to-cart button run one after the other
\* (lines 181-185); each reads the quantity input, which holds '1' (line
\* 165), and calls addToCart.  n is the number of listeners still to run.
RECURSIVE activate(_, _, _, _, _)
activate(prods, c, inv, productId, n) ==
  IF n = 0
  THEN Outcome("undefined", c, inv, FALSE, << >>)
  ELSE LET first == addToCart(prods, c, inv, productId, Given(1))
           rest == activate(prods, first.cart, first.inventory, productId, n - 1)
       IN [rest EXCEPT !.saved = first.saved \/ @,
                       !.events = first.events \o @,
                       !.notification = IF @ = "" THEN first.notification ELSE @]

\* The shopper activates the add-to-cart button of the i-th product element
\* once.
Click(i) ==
  /\ i \in 1..Len(listeners)
  /\ i \in 1..Len(products)
  /\ Commit(activate(products, cart, inventory, products[i].id, listeners[i]))
  /\ last' = Call("click", products[i].id, Given(1))
  /\ UNCHANGED << products, orders, pending, apiEndpoint, paymentManager,
                  timers, listeners >>

\* The mutation observer's callback (lines 647-663) for a notification whose
\* added nodes carry a product: a timer for scanProducts is set; timers set
\* before stay set.
MutationNotified ==
  /\ timers < MaxTimers
  /\ timers' = timers + 1
  /\ UNCHANGED listeners
  /\ last' = Call("mutation", "", Omitted)
  /\ Returns("undefined", << >>, "")
  /\ UNCHANGED << products, inventory, cart, storage, orders, pending,
                  apiEndpoint, paymentManager >>

\* One of the timers runs out: `() => this.scanProducts()` (line 661), over
\* the k-th document.
TimerFires(k) ==
  LET scanned == scanProducts(Documents[k], inventory)
  IN /\ timers > 0
     /\ timers' = timers - 1
     /\ products' = scanned.products
     /\ inventory' = scanned.inventory
     /\ listeners' = enhanceProductElements(Documents[k], listeners, MaxListeners)
     /\ last' = Call("scanProducts", "", Given(k))
     /\ Returns("undefined", << [name |-> "pos:products-scanned"] >>, "")
     /\ UNCHANGED << cart, storage, orders, pending, apiEndpoint, paymentManager >>

\* Variant of PushOrder: the stored list is replaced by the new record alone.
PushOrderAlone(stored, order) == << order >>

\* `orders.push(order)` on the parsed list (lines 577-585).
PushOrder(stored, order) == Append(stored, order)

\* completeCheckout (lines 576-589): the Order is stored, then clearCart runs.
CompleteCheckout(checkoutData, pend, before) ==
  LET o == clearCart(cart, inventory)
  IN /\ Len(orders) < MaxOrders
     /\ orders' = PushOrder(orders, OrderRecord(checkoutData, cart))
     /\ Commit(Notify([o EXCEPT !.events =
                         before \o @ \o << [name |-> "pos:checkout-completed"] >>],
                      "Order completed successfully!"))
     /\ pending' = Detach(MarkRecorded(pend, checkoutData.array), cart)

\* Variant of EmptyCart: the empty-cart check is missing.
EmptyCartNever(c) == FALSE

\* `this.cart.length === 0` (line 529; part_000 line 736)
EmptyCart(c) == Len(c) = 0

\* startCheckout on an empty cart (lines 529-532).
StartCheckoutEmpty ==
  /\ paymentManager = "none"
  /\ EmptyCart(cart)
  /\ UNCHANGED << timers, listeners >>
  /\ last' = Call("startCheckout", "", Omitted)
  /\ Returns("undefined", << >>, "Cart is empty")
  /\ UNCHANGED << products, inventory, cart, storage, orders, pending,
                  apiEndpoint, paymentManager >>

\* startCheckout without an endpoint: showCheckoutSummary asks confirm().
StartCheckoutLocal(confirmed) ==
  /\ paymentManager = "none"
  /\ ~EmptyCart(cart)
  /\ ~apiEndpoint
  /\ UNCHANGED << timers, listeners >>
  /\ last' = Call("startCheckout", "", Omitted)
  /\ IF confirmed
     THEN CompleteCheckout(NewCheckoutData(cart), pending,
                           << [name |-> "pos:checkout-started"] >>)
     ELSE /\ Returns("undefined", << [name |-> "pos:checkout-started"] >>, "")
          /\ UNCHANGED << inventory, cart, storage, orders, pending >>
  /\ UNCHANGED << products, apiEndpoint, paymentManager >>

\* startCheckout with an endpoint: submitToAPI sends the request and awaits.
StartCheckoutRemote ==
  /\ paymentManager = "none"
  /\ ~EmptyCart(cart)
  /\ apiEndpoint
  /\ Len(pending) < MaxPending
  /\ pending' = Append(pending, NewCheckoutData(cart))
  /\ UNCHANGED << timers, listeners >>
  /\ last' = Call("startCheckout", "", Omitted)
  /\ Returns("undefined", << [name |-> "pos:checkout-started"] >>, "")
  /\ UNCHANGED << products, inventory, cart, storage, orders, apiEndpoint,
                  paymentManager >>

\* The response of submission i arrives and is acknowledged (response.ok).
ApiSuccess(i) ==
  /\ i \in 1..Len(pending)
  /\ UNCHANGED << timers, listeners >>
  /\ last' = Call("apiResponse", "", Omitted)
  /\ CompleteCheckout(pending[i], RemoveAt(pending, i),
                      << [name |-> "pos:api-success"] >>)
  /\ UNCHANGED << products, apiEndpoint, paymentManager >>

\* Variant of submitFailed: the failure path clears the cart as a completed
\* checkout does.
submitFailedClearing(c, inv) ==
  Notify([clearCart(c, inv) EXCEPT !.events = << [name |-> "pos:api-error"] >>],
         "Checkout failed. Please try again.")

\* The catch block of submitToAPI (lines 611-615).
submitFailed(c, inv) ==
  Notify(Outcome("undefined", c, inv, FALSE, << [name |-> "pos:api-error"] >>),
         "Checkout failed. Please try again.")

\* Submission i fails: network error or non-success status (lines 608-615).
ApiFailure(i) ==
  /\ i \in 1..Len(pending)
  /\ pending' = RemoveAt(pending, i)
  /\ UNCHANGED << timers, listeners >>
  /\ last' = Call("apiResponse", "", Omitted)
  /\ Commit(submitFailed(cart, inventory))
  /\ UNCHANGED << products, orders, apiEndpoint, paymentManager >>

\* The response of submission i is acknowledged, api-success is emitted, and
\* completeCheckout throws while storing the Order: setItem of the orders key
\* exceeds the quota, or the stored orders blob does not parse (lines 578-584).
\* The throw happens inside the try of submitToAPI, before clearCart, and its
\* catch block runs (lines 611-615).
ApiSuccessOrderNotStored(i) ==
  /\ i \in 1..Len(pending)
  /\ pending' = RemoveAt(pending, i)
  /\ UNCHANGED << timers, listeners >>
  /\ last' = FaultyCall("apiResponse", "", Omitted, 1)
  /\ Commit([submitFailed(cart, inventory) EXCEPT
               !.events = << [name |-> "pos:api-success"] >> \o @])
  /\ UNCHANGED << products, orders, apiEndpoint, paymentManager >>

\* ------------------------------------------------------ the payment manager
\* POSPaymentManager.bindEvents (part_000 lines 706-707) replaces
\* startCheckout by showPaymentModal (lines 735-751).
ShowPaymentModal ==
  /\ paymentManager # "none"
  /\ UNCHANGED << timers, listeners >>
  /\ last' = Call("startCheckout", "", Omitted)
  /\ IF EmptyCart(cart)
     THEN /\ Returns("undefined", << >>, "Cart is empty")
          /\ UNCHANGED paymentManager
     ELSE /\ Returns("undefined", << >>, "")
          /\ paymentManager' = "block"
  /\ UNCHANGED << products, inventory, cart, storage, orders, pending,
                  apiEndpoint >>

\* hidePaymentModal (lines 756-760): the modal is closed or cancelled.
HidePaymentModal ==
  /\ paymentManager = "block"
  /\ paymentManager' = "hidden"
  /\ UNCHANGED << timers, listeners >>
  /\ last' = Call("hidePaymentModal", "", Omitted)
  /\ Returns("undefined", << >>, "")
  /\ UNCHANGED << products, inventory, cart, storage, orders, pending,
                  apiEndpoint >>

\* The timer of handlePaymentSuccess (lines 968-978): the modal is hidden and
\* the cart is cleared; no Order is written.
HandlePaymentSuccess ==
  LET o == clearCart(cart, inventory)
  IN /\ paymentManager = "block"
     /\ paymentManager' = "hidden"
     /\ UNCHANGED << timers, listeners >>
     /\ last' = Call("handlePaymentSuccess", "", Omitted)
     /\ Commit(Notify([o EXCEPT !.events =
                         @ \o << [name |-> "pos:payment-success"] >>],
                      "Payment successful! Order completed."))
     /\ pending' = Detach(pending, cart)
     /\ UNCHANGED << products, orders, apiEndpoint >>

\* calculateTotals (lines 349-362): the figures are handed back, nothing is
\* written.
CalculateTotals ==
  /\ UNCHANGED << timers, listeners >>
  /\ last' = Call("calculateTotals", "", Omitted)
  /\ totals' = << calculateTotals(cart) >>
  /\ result' = "totals"
  /\ events' = << >>
  /\ notification' = ""
  /\ UNCHANGED << products, inventory, cart, storage, orders, pending,
                  apiEndpoint, paymentManager >>

\* ------------------------------------------------------- reload, storage
\* The page is loaded again: a fresh engine is constructed over the same
\* storage and the same document and init runs (lines 34-45): loadStoredData,
\* then scanProducts.  Requests of the page left behind are gone.
Reload ==
  LET loaded == loadStoredData(storage)
      scanned == scanProducts(Document, loaded.inventory)
  IN /\ cart' = loaded.cart
     /\ inventory' = scanned.inventory
     /\ products' = scanned.products
     /\ pending' = << >>
     /\ paymentManager' = IF paymentManager = "none" THEN "none" ELSE "hidden"
     /\ timers' = 0
     /\ listeners' = enhanceProductElements(Document, << >>, MaxListeners)
     /\ last' = Call("init", "", Omitted)
     /\ Returns(IF loaded.raised THEN "threw" ELSE "undefined",
                << [name |-> "pos:products-scanned"],
                   [name |-> "pos:initialized"] >>, "")
     /\ UNCHANGED << storage, orders, apiEndpoint >>

\* A key of the storage is removed by something other than the engine (the
\* browser's site-data controls; AdminDashboard.clearAllData, admin.js
\* 1451-1453).
StorageLost(key) ==
  /\ storage[key] # << >>
  /\ storage' = [storage EXCEPT ![key] = << >>]
  /\ UNCHANGED << timers, listeners >>
  /\ last' = Call("removeItem", key, Omitted)
  /\ Returns("undefined", << >>, "")
  /\ UNCHANGED << products, inventory, cart, orders, pending, apiEndpoint,
                  paymentManager >>

\* A key of the storage comes to hold a text that is not JSON.
StorageCorrupted(key) ==
  /\ storage[key] # << NotJSON >>
  /\ storage' = [storage EXCEPT ![key] = << NotJSON >>]
  /\ UNCHANGED << timers, listeners >>
  /\ last' = Call("setItem", key, Omitted)
  /\ Returns("undefined", << >>, "")
  /\ UNCHANGED << products, inventory, cart, orders, pending, apiEndpoint,
                  paymentManager >>

\* --------------------------------------------- operations on a full storage
AddToCartSaveFails(p, arg, fault) ==
  /\ CommitFaulty(addToCart(products, cart, inventory, p, arg), fault)
  /\ UNCHANGED << timers, listeners >>
  /\ last' = FaultyCall("addToCart", p, arg, fault)
  /\ UNCHANGED << products, orders, pending, apiEndpoint, paymentManager >>

RemoveFromCartSaveFails(p, arg, fault) ==
  /\ CommitFaulty(removeFromCart(cart, inventory, p, arg), fault)
  /\ UNCHANGED << timers, listeners >>
  /\ last' = FaultyCall("removeFromCart", p, arg, fault)
  /\ UNCHANGED << products, orders, pending, apiEndpoint, paymentManager >>

ClearCartSaveFails(fault) ==
  /\ CommitFaulty(clearCart(cart, inventory), fault)
  /\ pending' = Detach(pending, cart)
  /\ UNCHANGED << timers, listeners >>
  /\ last' = FaultyCall("clearCart", "", Omitted, fault)
  /\ UNCHANGED << products, orders, apiEndpoint, paymentManager >>

\* -------------------------------------------------------------- the getters
\* getCart and getProducts (lines 683-689) return a new array, `[...this.cart]`
\* and `[...this.products]`, whose elements are the engine's own objects: an
\* element of the copy is given as the position of that object in the
\* engine's array.  getInventory (691-693) returns `{...this.inventory}`, whose
\* values are numbers.
getCart(c) == [i \in 1..Len(c) |-> i]

getProducts(prods) == [i \in 1..Len(prods) |-> i]

getInventory(inv) == inv

\* What a getter's caller does next leaves these alone unless said otherwise.
CallerDid(op, productId, arg) ==
  /\ UNCHANGED << timers, listeners >>
  /\ last' = Call(op, productId, arg)
  /\ Returns("undefined", << >>, "")
  /\ UNCHANGED << storage, orders, pending, apiEndpoint, paymentManager >>

\* `getCart()[j].quantity = v`: a write to the object the copy's j-th element
\* refers to.
CallerEditsLineItem(j, v) ==
  /\ j \in 1..Len(getCart(cart))
  /\ LET item == getCart(cart)[j]
     IN /\ InBounds([cart EXCEPT ![item].quantity = v], inventory)
        /\ cart' = [cart EXCEPT ![item].quantity = v]
        /\ CallerDid("getCart", cart[item].id, Given(v))
  /\ UNCHANGED << products, inventory >>

\* `getCart().splice(j, 1)`: the copy loses an element, the engine's array is
\* another array.
CallerDropsLineItem(j) ==
  /\ j \in 1..Len(getCart(cart))
  /\ CallerDid("getCart", cart[getCart(cart)[j]].id, Omitted)
  /\ UNCHANGED << products, inventory, cart >>

\* `getInventory()[p] = v`: a write to the copy.
CallerEditsInventory(p, v) ==
  /\ p \in DOMAIN getInventory(inventory)
  /\ CallerDid("getInventory", p, Given(v))
  /\ UNCHANGED << products, inventory, cart >>

\* `getProducts()[j].price = v`: a write to the engine's product object.
CallerEditsProduct(j, v) ==
  /\ j \in 1..Len(getProducts(products))
  /\ LET product == getProducts(products)[j]
     IN /\ products' = [products EXCEPT ![product].price = v]
        /\ CallerDid("getProducts", products[product].id, Given(v))
  /\ UNCHANGED << inventory, cart >>

\* ---------------------------------------------------------- specifications
\* The cart mutators, over the argument sets given.
AddCalls(ids, args) == \E p \in ids, arg \in args : AddToCart(p, arg)

RemoveCalls(ids, args) == \E p \in ids, arg \in args : RemoveFromCart(p, arg)

CartOps(ids, addArgs, removeArgs) ==
  \/ AddCalls(ids, addArgs)
  \/ RemoveCalls(ids, removeArgs)
  \/ ClearCart

Overrides ==
  \/ \E p \in ProductIds, q \in SetValues : SetInventory(p, q)
  \/ ScanProducts(1)

LocalCheckouts ==
  \/ StartCheckoutEmpty
  \/ \E confirmed \in BOOLEAN : StartCheckoutLocal(confirmed)

RemoteCheckouts ==
  \/ StartCheckoutEmpty
  \/ StartCheckoutRemote
  \/ \E i \in 1..MaxPending : ApiSuccess(i)
  \/ \E i \in 1..MaxPending : ApiFailure(i)

Next ==
  \/ CartOps(ProductIds, AddArgs, RemoveArgs)
  \/ Overrides
  \/ LocalCheckouts
  \/ RemoteCheckouts

Spec == Init /\ [][Next]_vars

\* The cart mutators alone, for every quantity argument: no administrative
\* override, no checkout.
NextCart == CartOps(ProductIds, AddArgs, RemoveArgs)

SpecCart == InitLocal /\ [][NextCart]_vars

\* The cart mutators with administrative overrides and re-scans.
NextAdmin == CartOps(ProductIds, FewArgs, FewRemoveArgs) \/ Overrides

SpecAdmin == InitLocal /\ [][NextAdmin]_vars

\* The cart mutators called with quantities of at least 1, with local
\* checkouts (no endpoint configured).
NextShop ==
  CartOps(DocumentIds, PosArgs, PosArgs \cup {Omitted}) \/ LocalCheckouts

SpecShop == InitLocal /\ [][NextShop]_vars

\* As SpecShop, with removals of one unit or of the whole line only.
NextCheckout == CartOps(DocumentIds, FewArgs, UnitRemoveArgs) \/ LocalCheckouts

SpecCheckout == InitLocal /\ [][NextCheckout]_vars

\* The cart mutators with remote checkouts (an endpoint is configured).
NextRemote ==
  \/ AddCalls({"tee-2"}, FewArgs)
  \/ AddCalls({"mug-1"}, {Given(2)})
  \/ RemoveCalls({"tee-2"}, UnitRemoveArgs)
  \/ RemoveCalls({"mug-1"}, {Omitted})
  \/ ClearCart
  \/ RemoteCheckouts

SpecRemote == InitRemote /\ [][NextRemote]_vars

PaymentCheckouts ==
  \/ ShowPaymentModal
  \/ HidePaymentModal
  \/ HandlePaymentSuccess

\* Every way a checkout is started: the engine's own startCheckout, with and
\* without an endpoint, and the payment manager's replacement of it.
NextCheckouts ==
  \/ AddCalls({"mug-1"}, {Given(2)})
  \/ RemoveCalls({"mug-1"}, {Omitted})
  \/ ClearCart
  \/ StartCheckoutEmpty
  \/ \E confirmed \in BOOLEAN : StartCheckoutLocal(confirmed)
  \/ StartCheckoutRemote
  \/ \E i \in 1..MaxPending : ApiSuccess(i)
  \/ \E i \in 1..MaxPending : ApiFailure(i)
  \/ \E i \in 1..MaxPending : ApiSuccessOrderNotStored(i)
  \/ PaymentCheckouts

SpecCheckouts == Init /\ [][NextCheckouts]_vars

\* Scans of a document that is edited between them, with cart calls and
\* administrative overrides in between.
NextScan ==
  \/ AddCalls(ProductIds, {Given(1)})
  \/ RemoveCalls(ProductIds, {Omitted})
  \/ \E p \in ProductIds, q \in SetValues : SetInventory(p, q)
  \/ \E k \in 1..2 : ScanProducts(k)

SpecScan == InitLocal /\ [][NextScan]_vars

\* Prices a caller writes into a product object, in cents.
CallerPrices == {1}

\* The cart mutators, with callers that write to what the getters returned.
NextGetters ==
  \/ AddCalls(DocumentIds, {Given(1)})
  \/ RemoveCalls(DocumentIds, {Omitted})
  \/ \E j \in 1..Len(Document) : CallerEditsLineItem(j, 2)
  \/ \E j \in 1..Len(Document) : CallerDropsLineItem(j)
  \/ \E p \in DocumentIds : CallerEditsInventory(p, 0)
  \/ \E v \in CallerPrices : CallerEditsProduct(1, v)

SpecGetters == InitLocal /\ [][NextGetters]_vars

\* The cart mutators over the edited document (a product priced 7.99), with
\* calls of calculateTotals.
NextTotals ==
  \/ AddCalls(ProductIds, FewArgs)
  \/ RemoveCalls(ProductIds, UnitRemoveArgs)
  \/ ScanProducts(2)
  \/ CalculateTotals

SpecTotals == InitLocal /\ [][NextTotals]_vars

StorageKeys == {"cart", "inventory"}

\* The cart mutators and overrides, with reloads of the page.
NextReload ==
  \/ CartOps(ProductIds, FewArgs, UnitRemoveArgs)
  \/ \E p \in ProductIds, q \in SetValues : SetInventory(p, q)
  \/ Reload

SpecReload == InitLocal /\ [][NextReload]_vars

\* As SpecReload without overrides, with a storage whose keys get lost or
\* corrupted between page loads.
NextStorage ==
  \/ CartOps(DocumentIds, {Given(1)}, {Omitted})
  \/ Reload
  \/ \E key \in StorageKeys : StorageLost(key)
  \/ \E key \in StorageKeys : StorageCorrupted(key)

SpecStorage == InitLocal /\ [][NextStorage]_vars

\* Which setItem of a saveData throws: the first (cart) or the second
\* (inventory).
Faults == 1..2

\* The cart mutators over a storage that may refuse a write, with reloads of
\* the page.
NextQuota ==
  \/ CartOps(DocumentIds, {Given(1)}, {Omitted})
  \/ \E p \in DocumentIds, fault \in Faults :
       AddToCartSaveFails(p, Given(1), fault)
  \/ \E p \in DocumentIds, fault \in Faults :
       RemoveFromCartSaveFails(p, Omitted, fault)
  \/ \E fault \in Faults : ClearCartSaveFails(fault)
  \/ Reload

SpecQuota == InitLocal /\ [][NextQuota]_vars

\* Scans of a document into which elements are inserted, with cart calls in
\* between.
NextInsert ==
  \/ AddCalls(DocumentIds, {Given(1)})
  \/ RemoveCalls(DocumentIds, {Omitted})
  \/ \E k \in 1..Len(Documents) : ScanProducts(k)

SpecInsert == InitLocal /\ [][NextInsert]_vars

\* The document is edited in bursts while the shopper uses the cart.
NextObserver ==
  \/ AddCalls(DocumentIds, {Given(1)})
  \/ RemoveCalls(DocumentIds, {Omitted})
  \/ MutationNotified
  \/ \E k \in 1..2 : TimerFires(k)

SpecObserver == InitLocal /\ [][NextObserver]_vars

\* The shopper uses the add-to-cart buttons of the page while the document is
\* scanned again.
NextClick ==
  \/ \E i \in 1..Len(Document) : Click(i)
  \/ RemoveCalls(DocumentIds, {Omitted})
  \/ ScanProducts(1)

SpecClick == InitLocal /\ [][NextClick]_vars

\* Shopping goes on while submissions are in flight: single mugs are added
\* before and after startCheckout, and each response arrives at any later
\* moment.
NextInFlight ==
  \/ AddCalls({"mug-1"}, {Given(1)})
  \/ StartCheckoutRemote
  \/ \E i \in 1..MaxPending : ApiSuccess(i)
  \/ \E i \in 1..MaxPending : ApiFailure(i)

SpecInFlight == InitRemote /\ [][NextInFlight]_vars

\* -------------------------------------------------------------- properties
\* The quantity the cart holds of product p (0 when p has no line item).
LineQty(c, p) ==
  LET i == FindIndex(c, p) IN IF i = 0 THEN 0 ELSE c[i].quantity

HasLine(c, p) == \E i \in 1..Len(c) : c[i].id = p

Known(prods, p) == \E i \in 1..Len(prods) : prods[i].id = p

\* The ledger entries of every product other than p are as before the call.
OthersKept(p) ==
  \A x \in ProductIds \ {p} :
    /\ (x \in DOMAIN inventory) = (x \in DOMAIN last.inventory)
    /\ InvGet(inventory, x) = InvGet(last.inventory, x)

RECURSIVE OrderedQty(_, _, _)
\* The quantity of p recorded in the Order records from the i-th on.
OrderedQty(ords, i, p) ==
  IF i > Len(ords) THEN 0
  ELSE LineQty(ords[i].cart, p) + OrderedQty(ords, i + 1, p)

\* C1: stock conservation - for every product of the document, the ledger
\* entry plus the quantity of its cart line item equals the declared stock,
\* in every state the cart mutators reach.
C1_StockConservation ==
  \A p \in DocumentIds :
    InvGet(inventory, p) + LineQty(cart, p) = DeclaredStock(p)

\* C2: no overselling - the quantity of a product recorded in completed
\* orders plus the quantity in the cart never exceeds its declared stock.
C2_NoOverselling ==
  \A p \in DocumentIds :
    OrderedQty(orders, 1, p) + LineQty(cart, p) <= DeclaredStock(p)

\* C3: the ledger never goes negative, whatever integer quantities the
\* callers of addToCart and removeFromCart pass.
C3_LedgerNonNegative ==
  \A p \in DOMAIN inventory : inventory[p] >= 0

\* C4: for a known product and n >= 1, addToCart(p, n) succeeds exactly when
\* n <= inventory[p] at the time of the call, also for a top-up.
C4_AddSucceedsIffInStock ==
  (/\ last.op = "addToCart"
   /\ Known(products, last.productId)
   /\ last.arg.value >= 1)
  => ((result = "true") <=>
        (last.arg.value <= InvGet(last.inventory, last.productId)))

\* C5: addToCart(p, n) with n greater than the available stock returns
\* false, emits nothing, and leaves the cart and the whole inventory map as
\* they were.
C5_OverstockAddRefused ==
  (/\ last.op = "addToCart"
   /\ last.arg.value > InvGet(last.inventory, last.productId))
  => /\ result = "false"
     /\ cart = last.cart
     /\ inventory = last.inventory
     /\ events = << >>

\* C5 witness: stock 5, 3 already held (ledger 2), a second add of 3 refused.
C5_Witness ==
  /\ last.op = "addToCart"
  /\ last.productId = "mug-1"
  /\ last.arg = Given(3)
  /\ LineQty(last.cart, "mug-1") = 3
  /\ last.inventory["mug-1"] = 2
  /\ result = "false"
  /\ cart = last.cart
  /\ inventory = last.inventory

\* C6: addToCart for an identifier that is not in the product list returns
\* false, changes neither cart nor inventory and emits no event, also when
\* the inventory map has an entry for that identifier.
C6_UnknownProductRefused ==
  (/\ last.op = "addToCart"
   /\ ~Known(products, last.productId))
  => /\ result = "false"
     /\ cart = last.cart
     /\ inventory = last.inventory
     /\ events = << >>

\* C6 witness: "cap-3" is in no product element, setInventory gave it a
\* ledger entry that covers the quantity asked for, and the add is refused.
C6_Witness ==
  /\ last.op = "addToCart"
  /\ last.productId = "cap-3"
  /\ ~Known(products, "cap-3")
  /\ "cap-3" \in DOMAIN last.inventory
  /\ last.inventory["cap-3"] >= last.arg.value
  /\ last.arg.value >= 1
  /\ result = "false"

\* C7: removeFromCart(p, q) with q >= the held quantity h removes the line
\* item, increases inventory[p] by exactly h, and reports h in the
\* item-removed event.
C7_OversizedRemoveReleasesHeld ==
  (/\ last.op = "removeFromCart"
   /\ HasLine(last.cart, last.productId)
   /\ last.arg.given
   /\ last.arg.value >= LineQty(last.cart, last.productId))
  => /\ ~HasLine(cart, last.productId)
     /\ inventory[last.productId] =
          InvGet(last.inventory, last.productId)
            + LineQty(last.cart, last.productId)
     /\ events = << [name |-> "pos:item-removed",
                     productId |-> last.productId,
                     quantity |-> LineQty(last.cart, last.productId)] >>

\* C8: removeFromCart(p) without a quantity removes p's line item and
\* releases the held quantity; removeFromCart(p, q) with 1 <= q < held
\* lowers the line by q in place and releases q; every other line item and
\* ledger entry is untouched; on a product with no line item the call
\* returns false and changes nothing.
C8_RemoveFromCart ==
  last.op = "removeFromCart" =>
    LET p == last.productId
        ci == FindIndex(last.cart, p)
        held == LineQty(last.cart, p)
        q == last.arg.value
    IN IF ci = 0
       THEN /\ result = "false"
            /\ cart = last.cart
            /\ inventory = last.inventory
            /\ events = << >>
       ELSE /\ ~last.arg.given =>
                 /\ result = "true"
                 /\ Len(cart) = Len(last.cart) - 1
                 /\ \A j \in 1..Len(cart) :
                      cart[j] = last.cart[IF j < ci THEN j ELSE j + 1]
                 /\ inventory[p] = InvGet(last.inventory, p) + held
                 /\ OthersKept(p)
            /\ (last.arg.given /\ 1 <= q /\ q < held) =>
                 /\ result = "true"
                 /\ Len(cart) = Len(last.cart)
                 /\ cart[ci].id = p
                 /\ cart[ci].quantity = held - q
                 /\ cart[ci].price = last.cart[ci].price
                 /\ \A j \in 1..Len(cart) : j # ci => cart[j] = last.cart[j]
                 /\ inventory[p] = InvGet(last.inventory, p) + q
                 /\ OthersKept(p)

\* C8 witness: two line items, the first one lowered by 1 and still first.
C8_Witness ==
  /\ last.op = "removeFromCart"
  /\ Len(last.cart) = 2
  /\ last.cart[1].id = last.productId
  /\ last.arg = Given(1)
  /\ last.cart[1].quantity = 3
  /\ Len(cart) = 2
  /\ cart[1].id = last.productId
  /\ cart[1].quantity = 2
  /\ cart[2] = last.cart[2]
  /\ inventory[last.productId] = last.inventory[last.productId] + 1

\* C9: round trip - from every reachable state, for every identifier and
\* every quantity, an addToCart(p, n) that succeeds followed by
\* removeFromCart(p, n) gives back the cart and the inventory map.
C9_AddRemoveRoundTrip ==
  \A p \in ProductIds, arg \in AddArgs :
    LET added == addToCart(products, cart, inventory, p, arg)
        removed == removeFromCart(added.cart, added.inventory, p, arg)
    IN added.ret = "true" =>
         /\ removed.cart = cart
         /\ removed.inventory = inventory

\* C10: clearCart empties the cart and gives every line item's quantity
\* back to its product's ledger entry; the entries of products without a
\* line item are unchanged.
C10_ClearCartReleases ==
  last.op = "clearCart" =>
    /\ cart = << >>
    /\ \A p \in ProductIds :
         IF HasLine(last.cart, p)
         THEN inventory[p] = InvGet(last.inventory, p) + LineQty(last.cart, p)
         ELSE /\ (p \in DOMAIN inventory) = (p \in DOMAIN last.inventory)
              /\ InvGet(inventory, p) = InvGet(last.inventory, p)

\* C10 witness: line quantity 3 with ledger 2 gives ledger 5 and no cart.
C10_Witness ==
  /\ last.op = "clearCart"
  /\ Len(last.cart) = 2
  /\ LineQty(last.cart, "mug-1") = 3
  /\ last.inventory["mug-1"] = 2
  /\ inventory["mug-1"] = 5
  /\ cart = << >>

\* At most one line item per product identifier.
UniqueLines ==
  \A i, j \in 1..Len(cart) : cart[i].id = cart[j].id => i = j

\* Every scanned product has a ledger entry.
ProductsHaveEntries ==
  \A i \in 1..Len(products) : products[i].id \in DOMAIN inventory

\* C11: startCheckout on an empty cart shows "Cart is empty" and does nothing
\* else: it emits no event, sends no request, appends no Order and leaves
\* cart, inventory and storage alone; so does the payment manager's
\* replacement of startCheckout.
C11_EmptyCheckoutRefused ==
  [][(last'.op = "startCheckout" /\ cart = << >>) =>
       /\ notification' = "Cart is empty"
       /\ events' = << >>
       /\ pending' = pending
       /\ orders' = orders
       /\ cart' = cart
       /\ inventory' = inventory
       /\ storage' = storage
       /\ paymentManager' = paymentManager]_vars

\* The payment manager's startCheckout refused an empty cart after a sale.
C11_Witness ==
  /\ last.op = "startCheckout"
  /\ last.cart = << >>
  /\ paymentManager = "hidden"
  /\ notification = "Cart is empty"
  /\ storage.cart = << JSONstringify(<< >>) >>

\* The call that has just returned emitted the event named n.
Emitted(evs, n) == \E i \in 1..Len(evs) : evs[i].name = n

\* The stored list `after` is `before` with exactly one record appended.
GrewByOne(before, after) ==
  /\ Len(after) = Len(before) + 1
  /\ SubSeq(after, 1, Len(before)) = before

C13_FailedSubmissionKeepsState ==
  /\ (apiEndpoint /\ paymentManager = "none" /\ last.op = "startCheckout")
       => /\ cart = last.cart
          /\ inventory = last.inventory
          /\ Len(orders) = last.orders
  /\ (last.op = "apiResponse" /\ ~Emitted(events, "pos:checkout-completed"))
       => /\ Emitted(events, "pos:api-error")
          /\ cart = last.cart
          /\ inventory = last.inventory
          /\ Len(orders) = last.orders
          /\ cart # << >> => ENABLED StartCheckoutRemote

\* A submission of a non-empty cart has failed after an earlier sale.
C13_Witness ==
  /\ last.op = "apiResponse"
  /\ Emitted(events, "pos:api-error")
  /\ cart # << >>
  /\ cart = last.cart
  /\ pending = << >>
  /\ Len(orders) = 1

\* C14: the cart and totals of an Order are those of the moment startCheckout
\* was called: in every stored Order the totals are the totals of the Order's
\* own cart.
C14_OrderSnapshotImmutable ==
  \A i \in 1..Len(orders) : orders[i].totals = calculateTotals(orders[i].cart)

\* C16: setInventory(p, q) stores max(0, q) for p and leaves the cart and
\* every other ledger entry alone.
C16_SetInventoryClamps ==
  last.op = "setInventory" =>
    /\ last.productId \in DOMAIN inventory
    /\ inventory[last.productId] = IF last.arg.value < 0 THEN 0 ELSE last.arg.value
    /\ cart = last.cart
    /\ OthersKept(last.productId)

C17_GettersDefensive ==
  [][last'.op \in {"getCart", "getInventory", "getProducts"} =>
       /\ cart' = cart
       /\ inventory' = inventory
       /\ products' = products
       /\ calculateTotals(cart') = calculateTotals(cart)]_vars

\* C18: calculateTotals changes no state and returns, in whole cents,
\* subtotal = sum of price x quantity, tax = subtotal x rate to the nearest
\* cent, shipping = the configured cost, total = subtotal + tax + shipping to
\* the nearest cent and itemCount = sum of quantities; 10.00 x 2 and 5.00 x 1
\* give 25.00, 2.00, 9.99, 36.99; a call on the same cart returns the same.
C18_TotalsContract ==
  last.op = "calculateTotals" =>
    /\ cart = last.cart
    /\ inventory = last.inventory
    /\ Len(orders) = last.orders
    /\ Len(totals) = 1
    /\ LET t == totals[1]
           sum == SumSeq([i \in 1..Len(cart) |-> cart[i].price * cart[i].quantity], 1)
           taxError == 100 * t.tax - TaxRatePct * sum
           totalError == 100 * t.total
                           - (100 * sum + TaxRatePct * sum + 100 * ShippingCost)
       IN /\ t.subtotal = sum
          /\ taxError > 0 - 50 /\ taxError <= 50
          /\ t.shipping = ShippingCost
          /\ totalError > 0 - 50 /\ totalError <= 50
          /\ t.itemCount = SumSeq([i \in 1..Len(cart) |-> cart[i].quantity], 1)
          /\ t = calculateTotals(cart)
          /\ cart = << [id |-> "mug-1", price |-> 1000, quantity |-> 2],
                       [id |-> "tee-2", price |-> 500, quantity |-> 1] >>
               => t = [subtotal |-> 2500, tax |-> 200, shipping |-> 999,
                       total |-> 3699, itemCount |-> 3]

\* The totals of the cart of the example have been computed.
C18_Witness ==
  /\ last.op = "calculateTotals"
  /\ cart = << [id |-> "mug-1", price |-> 1000, quantity |-> 2],
               [id |-> "tee-2", price |-> 500, quantity |-> 1] >>
  /\ totals = << [subtotal |-> 2500, tax |-> 200, shipping |-> 999,
                  total |-> 3699, itemCount |-> 3] >>

\* The totals of a cart whose tax is not a whole number of cents (7.99 at
\* 8 % is 0.6392) have been computed.
C18_RoundingWitness ==
  /\ last.op = "calculateTotals"
  /\ cart = << [id |-> "cap-3", price |-> 799, quantity |-> 1] >>
  /\ totals[1].tax = 64

\* What a stored item should load as: its value when it is JSON text, the
\* default when it is absent or not JSON.
Loadable(item, default) ==
  IF item = << >> THEN default
  ELSE IF item[1].json THEN item[1].value ELSE default

\* C19: loading never raises, and each blob is treated on its own: after a
\* page load the cart is the stored cart when its blob is valid and empty
\* otherwise, and the ledger is the scan's completion of the stored ledger
\* when its blob is valid and of the empty ledger otherwise.
C19_BlobsLoadIndependently ==
  last.op = "init" =>
    /\ result # "threw"
    /\ cart = Loadable(storage.cart, << >>)
    /\ inventory = scanProducts(Document, Loadable(storage.inventory, << >>)).inventory

\* C20: a page load over the storage the engine has written yields the cart
\* and the ledger the engine held just before.
C20_StateSurvivesReload ==
  last.op = "init" => cart = last.cart /\ inventory = last.inventory

\* The page was loaded again with a line in the cart, an entry for a product
\* the document does not carry and an entry away from the declared stock.
C20_Witness ==
  /\ last.op = "init"
  /\ cart = last.cart
  /\ inventory = last.inventory
  /\ Len(cart) = 2
  /\ "cap-3" \in DOMAIN inventory
  /\ inventory["mug-1"] = 3

\* C21: when the save of clearCart fails, the cart and the ledger are either
\* fully cleared and released or exactly as before the call with the failure
\* reported to the caller; they are never changed without a failure report.
C21_ClearCartAtomic ==
  (last.op = "clearCart" /\ last.fault # 0) =>
    LET cleared == /\ cart = << >>
                   /\ inventory = ReleaseAll(last.cart, 1, last.inventory)
        untouched == cart = last.cart /\ inventory = last.inventory
        reported == result = "threw" \/ notification # ""
    IN /\ cleared \/ (untouched /\ reported)
       /\ ~untouched => reported

\* What storage holds once saveData has written the state (c, inv).
Saved(c, inv) ==
  [cart |-> << JSONstringify(c) >>, inventory |-> << JSONstringify(inv) >>]

\* C22: a successful addToCart emits exactly one item-added event carrying the
\* productId and the quantity by which the line grew, a successful
\* removeFromCart exactly one item-removed event for the productId, a clearCart
\* exactly one cart-cleared event, each with the updated cart and ledger
\* already in storage; a refused addToCart or removeFromCart emits nothing.
C22_MutatorEvents ==
  /\ (last.op = "addToCart" /\ result = "true") =>
       /\ events = << [name |-> "pos:item-added", productId |-> last.productId,
                       quantity |-> LineQty(cart, last.productId)
                                      - LineQty(last.cart, last.productId)] >>
       /\ InvGet(inventory, last.productId)
            = InvGet(last.inventory, last.productId) - events[1].quantity
       /\ storage = Saved(cart, inventory)
  /\ (last.op = "removeFromCart" /\ result = "true") =>
       /\ Len(events) = 1
       /\ events[1].name = "pos:item-removed"
       /\ events[1].productId = last.productId
       /\ cart # last.cart
       /\ storage = Saved(cart, inventory)
  /\ last.op = "clearCart" =>
       /\ events = << [name |-> "pos:cart-cleared"] >>
       /\ cart = << >>
       /\ storage = Saved(cart, inventory)
  /\ (last.op \in {"addToCart", "removeFromCart"} /\ result = "false") =>
       /\ events = << >>
       /\ cart = last.cart
       /\ inventory = last.inventory

\* A repeat add was accepted and announced, after a removal was refused
\* earlier on: the line grew by the quantity the event carries.
C22_Witness ==
  /\ last.op = "addToCart"
  /\ result = "true"
  /\ LineQty(last.cart, last.productId) = 1
  /\ LineQty(cart, last.productId) = 3
  /\ events = << [name |-> "pos:item-added", productId |-> last.productId,
                  quantity |-> 2] >>
  /\ storage = Saved(cart, inventory)

\* C23: the cart holds at most one line item per product identifier and every
\* line item has a quantity of at least 1.
C23_CartWellFormed ==
  /\ \A i, j \in 1..Len(cart) : cart[i].id = cart[j].id => i = j
  /\ \A i \in 1..Len(cart) : cart[i].quantity >= 1

\* C24: the product list holds at most one entry per product identifier.
C24_ProductIdsUnique ==
  \A i, j \in 1..Len(products) : products[i].id = products[j].id => i = j

\* C25: however many mutation notifications arrive before a re-scan timer
\* runs out (that is, within the delay of one another), one scanProducts run
\* is pending, not one per notification.
C25_RescanDebounced == timers <= 1

\* The conservation invariant on a cart c and a ledger inv: for every product
\* of the document, stock on the ledger plus quantity in the cart is the
\* declared stock.
Conserved(c, inv) ==
  \A p \in DocumentIds : InvGet(inv, p) + LineQty(c, p) = DeclaredStock(p)

\* C26: whenever the in-memory cart and ledger satisfy the conservation
\* invariant, so do the cart and the ledger a page load would take from
\* storage.
C26_PersistedConsistent ==
  Conserved(cart, inventory) =>
    LET loaded == [cart |-> Loadable(storage.cart, << >>),
                   inventory |-> Loadable(storage.inventory, << >>)]
    IN Conserved(loaded.cart, scanProducts(Document, loaded.inventory).inventory)

\* C27: a cart that is submitted again while an earlier submission of it is
\* in flight is recorded in at most one Order: no Order is written from a
\* cart array an Order has been written from already.
C27_NoDoubleSubmission ==
  \A i \in 1..Len(orders) : ~orders[i].resubmitted

\* C28: a response to a remote submission emits api-success or api-error and
\* never both; checkout-completed is emitted only together with the
\* api-success of that submission; and when api-error is emitted no Order was
\* appended and the cart was not cleared, also when storing the Order fails
\* after the endpoint acknowledged.
C28_OneOutcomePerSubmission ==
  last.op = "apiResponse" =>
    /\ Emitted(events, "pos:api-success") # Emitted(events, "pos:api-error")
    /\ Emitted(events, "pos:checkout-completed")
         => Emitted(events, "pos:api-success")
    /\ Emitted(events, "pos:api-error")
         => /\ Len(orders) = last.orders
            /\ cart = last.cart

\* C29: when a submission is acknowledged and its checkout completes, only
\* the quantity that was in the cart when startCheckout ran leaves the cart:
\* quantity added while the submission was in flight is still in the cart and
\* is not in the Order.
C29_LateItemsKept ==
  (last.op = "apiResponse" /\ Emitted(events, "pos:checkout-completed")) =>
    LET order == orders[Len(orders)]
    IN  \A p \in ProductIds :
          LineQty(last.cart, p) > LineQty(order.sent, p)
            => /\ LineQty(cart, p) = LineQty(last.cart, p) - LineQty(order.sent, p)
               /\ LineQty(order.cart, p) = LineQty(order.sent, p)

\* C30: one activation of a product's add-to-cart button is one addToCart
\* call, however often scanProducts has run over the element: at most one
\* item-added event is emitted, and the cart holds the quantity of the
\* input, 1, more of the product exactly when that event is emitted.
C30_OneAddPerClick ==
  last.op = "click" =>
    /\ Len(events) <= 1
    /\ LineQty(cart, last.productId) - LineQty(last.cart, last.productId)
         = Len(events)

=============================================================================
